---- MODULE Spec2Model ----
(***************************************************************************)
(* A model of Tasty-ECS (src/src/lib.rs): the entity-component store       *)
(* EntitiesAndComponents, built on slotmap's SlotMap / SecondaryMap, and   *)
(* the scheduler World::run with its parallel prestep and per-entity       *)
(* phases.                                                                 *)
(*                                                                         *)
(* Four specifications share the variables:                                *)
(*   Spec        a client calling the store's operations one after         *)
(*               another, with live and with stale handles;                *)
(*   SpecRun     World::run on worlds built with the store's operations,   *)
(*               the chunk tasks of the per-entity phase interleaved;      *)
(*   SpecCursor  one single_entity_step calling the methods of its cursor; *)
(*   SpecResource a client adding, reading and removing resources between  *)
(*               calls of World::run.                                      *)
(***************************************************************************)
EXTENDS Integers, Sequences, FiniteSets, TLC

(***************************************************************************)
(* Bounds of the model.                                                    *)
(***************************************************************************)
\* slots a slot map may grow to under Spec
MaxSlots == 2
\* largest key version add_entity may hand out under Spec (versions are odd)
MaxVersion == 3
\* longest per-entity type list add_component_to may produce under Spec
MaxTypeList == 2
\* component values a client passes are 0..MaxValue
MaxValue == 1
\* entities of an initial world under SpecRun, and the most a tick starts with
MaxEntities == 6
\* systems registered with add_system under SpecRun
MaxSystems == 2
\* calls of World::run under SpecRun
MaxTicks == 2
\* calls one single_entity_step makes on its cursor under SpecCursor
MaxCalls == 3

(***************************************************************************)
(* Component types (TypeId::of::<T>()) and values.                         *)
(***************************************************************************)
Position == "Position"
Velocity == "Velocity"
\* the types a client of the store passes under Spec
Types == {Position, Velocity}
\* a component type that no entity of an initial world holds
Tag == "Tag"
AllTypes == Types \cup {Tag}
InputValues == 0..MaxValue

\* Option::None of a component value, and the () a method returns
NoValue == -1
NoType == "NoType"

(***************************************************************************)
(* slotmap::SlotMap<DefaultKey, V>.  A key is (idx, version); a slot holds *)
(* a version (odd = occupied), a value, and the next free index.  Index 0  *)
(* is slotmap's sentinel, so the slots of the model are numbered from 1    *)
(* and free_head = Len(slots) + 1 means "no free slot".                    *)
(***************************************************************************)
\* Versions are u32 and wrap; the checker's integers are 32-bit signed, so the
\* model keeps versions below 2^31 (the guards of AddEntity cap them far lower)
\* and the wrap-around of a slot's version after 2^31 reuses is outside it.
\* a slot map that does not bump the version of a slot it frees or reuses
VersionBump_Same(v) == v

VersionBump(v) == v + 1

Key(i, v) == [idx |-> i, version |-> v]

EmptySlotMap == [slots |-> << >>, free_head |-> 1, num_elems |-> 0]

SmOccupied(slot) == slot.version % 2 = 1

\* a lookup that checks the slot index only, not the key's version
SmContains_IdxOnly(sm, k) == k.idx \in 1..Len(sm.slots)

\* SlotMap::contains_key / get: the slot exists and carries the key's version
SmContains(sm, k) ==
    /\ k.idx \in 1..Len(sm.slots)
    /\ sm.slots[k.idx].version = k.version

SmGet(sm, k) == sm.slots[k.idx].value

\* the key SlotMap::insert will return
SmNextKey(sm) ==
    IF sm.free_head \in 1..Len(sm.slots)
    THEN Key(sm.free_head, VersionBump(sm.slots[sm.free_head].version))
    ELSE Key(Len(sm.slots) + 1, 1)

\* SlotMap::insert: reuse the head of the free list, else push a new slot
SmInsert(sm, val) ==
    LET k == SmNextKey(sm) IN
    IF sm.free_head \in 1..Len(sm.slots)
    THEN [slots |-> [sm.slots EXCEPT ![k.idx] =
                        [version |-> k.version, value |-> val, next_free |-> 0]],
          free_head |-> sm.slots[sm.free_head].next_free,
          num_elems |-> sm.num_elems + 1]
    ELSE [slots |-> Append(sm.slots,
                        [version |-> 1, value |-> val, next_free |-> 0]),
          free_head |-> k.idx + 1,
          num_elems |-> sm.num_elems + 1]

\* a remove that frees the slot and leaves the count of elements as it was
SmRemove_KeepCount(sm, k) ==
    IF ~SmContains(sm, k) THEN sm
    ELSE [slots |-> [sm.slots EXCEPT ![k.idx] =
                        [version |-> VersionBump(@.version),
                         value |-> << >>, next_free |-> sm.free_head]],
          free_head |-> k.idx,
          num_elems |-> sm.num_elems]

\* SlotMap::remove: nothing for a key that is not in the map; else the slot
\* goes to the head of the free list and its version is bumped
SmRemove(sm, k) ==
    IF ~SmContains(sm, k) THEN sm
    ELSE [slots |-> [sm.slots EXCEPT ![k.idx] =
                        [version |-> VersionBump(@.version),
                         value |-> << >>, next_free |-> sm.free_head]],
          free_head |-> k.idx,
          num_elems |-> sm.num_elems - 1]

SmSetValue(sm, k, val) == [sm EXCEPT !.slots[k.idx].value = val]

RECURSIVE SmValuesFrom(_, _)
SmValuesFrom(sm, i) ==
    IF i > Len(sm.slots) THEN << >>
    ELSE (IF SmOccupied(sm.slots[i]) THEN <<sm.slots[i].value>> ELSE << >>)
         \o SmValuesFrom(sm, i + 1)

\* SlotMap::values: the occupied slots' values in slot order
SmValues(sm) == SmValuesFrom(sm, 1)

(***************************************************************************)
(* slotmap::SecondaryMap<DefaultKey, V>: per slot index either vacant or   *)
(* (version, value), and a count of the occupied slots.  The model keeps   *)
(* the occupied indices as the domain of slots.                            *)
(***************************************************************************)
EmptySecondaryMap == [slots |-> << >>, num_elems |-> 0]

\* is_older_version(a, b): (a - b) as u32 >= 2^31, which for versions below
\* 2^31 is a < b
IsOlderVersion(a, b) == a < b

SecContains(m, k) ==
    k.idx \in DOMAIN m.slots /\ m.slots[k.idx].version = k.version

SecGet(m, k) == m.slots[k.idx].value

\* the slots with slot k.idx holding (k.version, val)
SecSlotsWith(m, k, val) ==
    [i \in (DOMAIN m.slots) \cup {k.idx} |->
        IF i = k.idx THEN [version |-> k.version, value |-> val] ELSE m.slots[i]]

\* a write through IndexMut: the value under a key the map holds
SecPut(m, k, val) == [m EXCEPT !.slots = SecSlotsWith(m, k, val)]

\* an insert that counts an element also when it replaces one
SecInsert_AlwaysCount(m, k, val) ==
    IF k.idx \in DOMAIN m.slots
       /\ m.slots[k.idx].version # k.version
       /\ IsOlderVersion(k.version, m.slots[k.idx].version)
    THEN m
    ELSE [slots |-> SecSlotsWith(m, k, val), num_elems |-> m.num_elems + 1]

\* SecondaryMap::insert: replaces the value of an occupied slot (refusing a
\* key older than the occupant), fills a vacant one and counts it
SecInsert(m, k, val) ==
    IF k.idx \in DOMAIN m.slots
    THEN IF m.slots[k.idx].version # k.version
            /\ IsOlderVersion(k.version, m.slots[k.idx].version)
         THEN m
         ELSE [m EXCEPT !.slots = SecSlotsWith(m, k, val)]
    ELSE [slots |-> SecSlotsWith(m, k, val), num_elems |-> m.num_elems + 1]

\* SecondaryMap::remove: only the occupant with the key's version
SecRemove(m, k) ==
    IF SecContains(m, k)
    THEN [slots |-> [i \in (DOMAIN m.slots) \ {k.idx} |-> m.slots[i]],
          num_elems |-> m.num_elems - 1]
    ELSE m

RECURSIVE SecValuesOf(_, _)
SecValuesOf(m, S) ==
    IF S = {} THEN << >>
    ELSE LET i == CHOOSE x \in S : \A y \in S : x <= y
         IN <<m.slots[i].value>> \o SecValuesOf(m, S \ {i})

\* SecondaryMap::values: the values in slot order
SecValues(m) == SecValuesOf(m, DOMAIN m.slots)

\* SecondaryMap::len
SecLen(m) == m.num_elems

SeqToSet(s) == {s[i] : i \in 1..Len(s)}

(***************************************************************************)
(* EntitiesAndComponents.                                                  *)
(***************************************************************************)
Entity(k) == [entity_id |-> k]

\* no handle: slot index 0 is the slot maps' sentinel, which no key names
NoEntity == Entity(Key(0, 0))

EmptyBag == << >>

\* EntitiesAndComponents::new
new ==
    [entities |-> EmptySlotMap,
     components |-> EmptySlotMap,
     entities_with_components |-> << >>,
     type_ids_on_entity |-> EmptySecondaryMap,
     resources |-> << >>]

\* the result of an operation: the store after it, whether it panicked, and
\* the value it returned
Ret(e, r) == [eac |-> e, panicked |-> FALSE, result |-> r]
Panic(e) == [eac |-> e, panicked |-> TRUE, result |-> NoValue]

\* an add_entity that hands out a bag with a component in it
add_entity_Dirty(e) ==
    LET entity_id == SmNextKey(e.components) IN
    Ret([e EXCEPT
           !.components = SmInsert(e.components, [t \in {Position} |-> 0]),
           !.entities = SmInsert(e.entities, Entity(entity_id)),
           !.type_ids_on_entity = SecInsert(e.type_ids_on_entity, entity_id, << >>)],
        Entity(entity_id))

\* add_entity
add_entity(e) ==
    LET entity_id == SmNextKey(e.components) IN
    Ret([e EXCEPT
           !.components = SmInsert(e.components, EmptyBag),
           !.entities = SmInsert(e.entities, Entity(entity_id)),
           !.type_ids_on_entity = SecInsert(e.type_ids_on_entity, entity_id, << >>)],
        Entity(entity_id))

\* a cascade that stops after the first type of the list
RemoveFromIndex_First(ewc, tids, k) ==
    IF tids = << >> \/ Head(tids) \notin DOMAIN ewc THEN ewc
    ELSE [ewc EXCEPT ![Head(tids)] = SecRemove(ewc[Head(tids)], k)]

RECURSIVE RemoveFromIndex(_, _, _)
\* the loop of remove_entity over a clone of the entity's type list
RemoveFromIndex(ewc, tids, k) ==
    IF tids = << >> THEN ewc
    ELSE LET t == Head(tids)
             next == IF t \in DOMAIN ewc
                     THEN [ewc EXCEPT ![t] = SecRemove(ewc[t], k)]
                     ELSE ewc
         IN RemoveFromIndex(next, Tail(tids), k)

\* a remove_entity that leaves the entity in the entities table
remove_entity_KeepEntities(e, entity) ==
    LET k == entity.entity_id IN
    IF ~SecContains(e.type_ids_on_entity, k) THEN Panic(e)
    ELSE Ret([e EXCEPT
                !.entities_with_components =
                    RemoveFromIndex(e.entities_with_components,
                                    SecGet(e.type_ids_on_entity, k), k),
                !.type_ids_on_entity = SecRemove(e.type_ids_on_entity, k),
                !.components = SmRemove(e.components, k)],
             NoValue)

\* remove_entity: indexing type_ids_on_entity with a key it does not hold panics
remove_entity(e, entity) ==
    LET k == entity.entity_id IN
    IF ~SecContains(e.type_ids_on_entity, k) THEN Panic(e)
    ELSE Ret([e EXCEPT
                !.entities_with_components =
                    RemoveFromIndex(e.entities_with_components,
                                    SecGet(e.type_ids_on_entity, k), k),
                !.type_ids_on_entity = SecRemove(e.type_ids_on_entity, k),
                !.components = SmRemove(e.components, k),
                !.entities = SmRemove(e.entities, k)],
             NoValue)

\* get_entities
get_entities(e) == SmValues(e.entities)

\* get_entity_count
get_entity_count(e) == e.entities.num_elems

\* get_all_components
get_all_components(e, entity) ==
    IF ~SmContains(e.components, entity.entity_id) THEN Panic(e)
    ELSE Ret(e, SmGet(e.components, entity.entity_id))

\* try_get_component / try_get_component_mut: None when the bag has no T
try_get_component(e, entity, T) ==
    IF ~SmContains(e.components, entity.entity_id) THEN Panic(e)
    ELSE LET bag == SmGet(e.components, entity.entity_id)
         IN Ret(e, IF T \in DOMAIN bag THEN bag[T] ELSE NoValue)

\* an insert that keeps the value the bag already holds
\* an insert that leaves the bag with the new component alone
BagInsert_Alone(bag, T, v) == [t \in {T} |-> v]

BagInsert_KeepOld(bag, T, v) ==
    [t \in (DOMAIN bag) \cup {T} |-> IF t \in DOMAIN bag THEN bag[t] ELSE v]

BagInsert(bag, T, v) == [t \in (DOMAIN bag) \cup {T} |-> IF t = T THEN v ELSE bag[t]]

\* a remove that empties the bag
BagRemove_Clear(bag, T) == EmptyBag

BagRemove(bag, T) == [t \in (DOMAIN bag) \ {T} |-> bag[t]]

\* an add_component_to that forgets the Vacant arm of the entry
IndexInsert_OnlyOccupied(ewc, T, entity) ==
    IF T \in DOMAIN ewc
    THEN [ewc EXCEPT ![T] = SecInsert(ewc[T], entity.entity_id, entity)]
    ELSE ewc

\* the entry of entities_with_components for T after add_component_to
IndexInsert(ewc, T, entity) ==
    IF T \in DOMAIN ewc
    THEN [ewc EXCEPT ![T] = SecInsert(ewc[T], entity.entity_id, entity)]
    ELSE [t \in (DOMAIN ewc) \cup {T} |->
            IF t = T THEN SecInsert(EmptySecondaryMap, entity.entity_id, entity)
            ELSE ewc[t]]

\* an add_component_to that leaves the reverse index as it is
add_component_to_NoIndex(e, entity, T, v) ==
    LET k == entity.entity_id IN
    IF ~SmContains(e.components, k) THEN Panic(e)
    ELSE LET e1 == [e EXCEPT
                      !.components = SmSetValue(e.components, k,
                                         BagInsert(SmGet(e.components, k), T, v))]
         IN IF ~SecContains(e.type_ids_on_entity, k) THEN Panic(e1)
            ELSE Ret([e1 EXCEPT
                        !.type_ids_on_entity =
                            SecPut(e.type_ids_on_entity, k,
                                   Append(SecGet(e.type_ids_on_entity, k), T))],
                     NoValue)

\* add_component_to
add_component_to(e, entity, T, v) ==
    LET k == entity.entity_id IN
    IF ~SmContains(e.components, k) THEN Panic(e)
    ELSE LET e1 == [e EXCEPT
                      !.components = SmSetValue(e.components, k,
                                         BagInsert(SmGet(e.components, k), T, v)),
                      !.entities_with_components =
                          IndexInsert(e.entities_with_components, T, entity)]
         IN \* type_ids_on_entity[entity_id] panics on a key it does not hold
            IF ~SecContains(e.type_ids_on_entity, k) THEN Panic(e1)
            ELSE Ret([e1 EXCEPT
                        !.type_ids_on_entity =
                            SecPut(e.type_ids_on_entity, k,
                                   Append(SecGet(e.type_ids_on_entity, k), T))],
                     NoValue)

\* a remove_component_from that leaves the reverse index alone
IndexRemove_Skip(ewc, T, entity) == ewc

\* the entry of entities_with_components for T after remove_component_from
IndexRemove(ewc, T, entity) ==
    IF T \in DOMAIN ewc
    THEN [ewc EXCEPT ![T] = SecRemove(ewc[T], entity.entity_id)]
    ELSE ewc

\* a retain that drops the first T of the list only
Retain_First(tids, T) ==
    IF \E i \in 1..Len(tids) : tids[i] = T
    THEN LET i == CHOOSE i \in 1..Len(tids) :
                      tids[i] = T /\ \A j \in 1..(i - 1) : tids[j] # T
         IN SubSeq(tids, 1, i - 1) \o SubSeq(tids, i + 1, Len(tids))
    ELSE tids

\* Vec::retain(|t| *t != TypeId::of::<T>())
Retain(tids, T) == SelectSeq(tids, LAMBDA t : t # T)

\* remove_component_from
remove_component_from(e, entity, T) ==
    LET k == entity.entity_id IN
    IF ~SmContains(e.components, k) THEN Panic(e)
    ELSE LET e1 == [e EXCEPT
                      !.components = SmSetValue(e.components, k,
                                         BagRemove(SmGet(e.components, k), T)),
                      !.entities_with_components =
                          IndexRemove(e.entities_with_components, T, entity)]
         IN \* type_ids_on_entity[entity_id] panics on a key it does not hold
            IF ~SecContains(e.type_ids_on_entity, k) THEN Panic(e1)
            ELSE Ret([e1 EXCEPT
                        !.type_ids_on_entity =
                            SecPut(e.type_ids_on_entity, k,
                                   Retain(SecGet(e.type_ids_on_entity, k), T))],
                     NoValue)

\* get_entities_with_component: the values of T's reverse index, empty if none
get_entities_with_component(e, T) ==
    IF T \in DOMAIN e.entities_with_components
    THEN SecValues(e.entities_with_components[T])
    ELSE << >>

\* get_entity_count_with_component
get_entity_count_with_component(e, T) ==
    IF T \in DOMAIN e.entities_with_components
    THEN SecLen(e.entities_with_components[T])
    ELSE 0

\* a get_nth_entity that reads the slot at the index, occupied or not
get_nth_entity_BySlot(e, index) ==
    IF index + 1 \in 1..Len(e.entities.slots)
       /\ SmOccupied(e.entities.slots[index + 1])
    THEN e.entities.slots[index + 1].value ELSE NoEntity

\* get_nth_entity: the index-th value of the entities table, if any
get_nth_entity(e, index) ==
    IF index + 1 \in 1..Len(get_entities(e))
    THEN get_entities(e)[index + 1] ELSE NoEntity

(***************************************************************************)
(* The tuple queries and add_entity_with (mod macros, generated per tuple  *)
(* arity).                                                                 *)
(***************************************************************************)
\* <(T1, .., Tn)>::get_components / get_components_mut: the components of the
\* types of the sequence Ts; panics if the entity is unknown or lacks one
get_components(e, entity, Ts) ==
    IF ~SmContains(e.components, entity.entity_id) THEN Panic(e)
    ELSE LET bag == SmGet(e.components, entity.entity_id) IN
         IF \E n \in 1..Len(Ts) : Ts[n] \notin DOMAIN bag THEN Panic(e)
         ELSE Ret(e, [n \in 1..Len(Ts) |-> bag[Ts[n]]])

\* <(T1, .., Tn)>::try_get_components / try_get_components_mut: per type of
\* Ts the component or None; panics if the entity is unknown
try_get_components(e, entity, Ts) ==
    IF ~SmContains(e.components, entity.entity_id) THEN Panic(e)
    ELSE LET bag == SmGet(e.components, entity.entity_id) IN
         Ret(e, [n \in 1..Len(Ts) |->
                    IF Ts[n] \in DOMAIN bag THEN bag[Ts[n]] ELSE NoValue])

RECURSIVE AddComponents(_, _, _)
AddComponents(e, entity, comps) ==
    IF comps = << >> THEN e
    ELSE AddComponents(add_component_to(e, entity, Head(comps).type,
                                        Head(comps).value).eac,
                       entity, Tail(comps))

\* add_entity_with((c1, .., cn)): a new entity, then each component in order
add_entity_with(e, comps) ==
    LET r == add_entity(e)
    IN Ret(AddComponents(r.eac, r.result, comps), r.result)

Comp(T, v) == [type |-> T, value |-> v]

\* a write through the reference get_components_mut / try_get_component_mut
\* hands out: the value of the entity's component of type T
SetComponent(e, entity, T, v) ==
    [e EXCEPT !.components =
        SmSetValue(e.components, entity.entity_id,
                   BagInsert(SmGet(e.components, entity.entity_id), T, v))]

(***************************************************************************)
(* SingleMutEntity: the cursor on one entity that single_entity_step gets. *)
(* try_get_component(_mut), add_component, remove_component and            *)
(* remove_entity pass self.entity to the store's method of the same        *)
(* purpose; the others are below.                                          *)
(***************************************************************************)
\* a get_component that returns None where the component is absent
get_component_NoPanic(e, entity, T) == try_get_component(e, entity, T)

\* SingleMutEntity::get_component / get_component_mut: panics where
\* try_get_component(_mut) panics or returns None
get_component(e, entity, T) ==
    LET r == try_get_component(e, entity, T) IN
    IF r.panicked \/ r.result = NoValue THEN Panic(e) ELSE r

\* SingleMutEntity::has_component: is_some() of try_get_component, the bool
\* as 1 or 0
has_component(e, entity, T) ==
    LET r == try_get_component(e, entity, T) IN
    IF r.panicked THEN Panic(e)
    ELSE Ret(e, IF r.result # NoValue THEN 1 ELSE 0)

\* SingleMutEntity::get_entity: the field, whatever the store holds
get_entity(entity) == entity

(***************************************************************************)
(* Systems.  MovementSystem, ParallelMovementSystem and PrestepSystem are  *)
(* the systems of the crate's tests; the other three call the cursor's     *)
(* add_component, remove_component and remove_entity from                  *)
(* single_entity_step.                                                     *)
(***************************************************************************)
MovementSystem == "MovementSystem"
ParallelMovementSystem == "ParallelMovementSystem"
PrestepSystem == "PrestepSystem"
AddTagSystem == "AddTagSystem"
RemoveVelocitySystem == "RemoveVelocitySystem"
RemoveEntitySystem == "RemoveEntitySystem"

SystemKinds == {MovementSystem, ParallelMovementSystem, PrestepSystem,
                AddTagSystem, RemoveVelocitySystem, RemoveEntitySystem}

\* System::implements_prestep
implements_prestep(kind) == kind = PrestepSystem

\* System::implements_single_entity_step
implements_single_entity_step(kind) ==
    kind \in {ParallelMovementSystem, AddTagSystem, RemoveVelocitySystem,
              RemoveEntitySystem}

\* position += velocity on one entity, through get_components_mut
Move(e, entity) ==
    LET r == get_components(e, entity, <<Position, Velocity>>) IN
    IF r.panicked THEN Panic(e)
    ELSE Ret(SetComponent(e, entity, Position, r.result[1] + r.result[2]), NoValue)

\* System::single_entity_step through a SingleMutEntity on entity
single_entity_step(kind, e, entity) ==
    CASE kind = ParallelMovementSystem -> Move(e, entity)
      [] kind = AddTagSystem -> add_component_to(e, entity, Tag, 1)
      [] kind = RemoveVelocitySystem -> remove_component_from(e, entity, Velocity)
      [] kind = RemoveEntitySystem -> remove_entity(e, entity)
      [] OTHER -> Ret(e, NoValue)

RECURSIVE MovementLoop(_, _, _)
\* the loop of MovementSystem::run over 0..engine.entities.len()
MovementLoop(e, i, n) ==
    IF i >= n THEN Ret(e, NoValue)
    ELSE LET r == Move(e, get_nth_entity(e, i))
         IN IF r.panicked THEN r ELSE MovementLoop(r.eac, i + 1, n)

RECURSIVE SpawnLoop(_, _)
\* the loop of PrestepSystem::run over the positions its prestep collected
SpawnLoop(e, positions) ==
    IF positions = << >> THEN Ret(e, NoValue)
    ELSE SpawnLoop(add_entity_with(e, <<Comp(Position, Head(positions))>>).eac,
                   Tail(positions))

\* System::run
run(kind, state, e) ==
    CASE kind = MovementSystem -> MovementLoop(e, 0, get_entity_count(e))
      [] kind = PrestepSystem -> SpawnLoop(e, state)
      [] OTHER -> Ret(e, NoValue)

\* PrestepSystem::prestep: the positions of the entities that hold one
prestep(kind, state, e) ==
    IF kind = PrestepSystem
    THEN LET es == get_entities_with_component(e, Position)
         IN [n \in 1..Len(es) |-> get_components(e, es[n], <<Position>>).result[1]]
    ELSE state

\* Resource::update of the test resource: value += 1
update(value) == value + 1

(***************************************************************************)
(* The chunks of the per-entity phase.                                     *)
(***************************************************************************)
chunk_size == 5

Min(a, b) == IF a < b THEN a ELSE b

\* a count of chunks that leaves out the last, shorter chunk
NumChunks_Floor(n) == n \div chunk_size

\* par_chunks_mut(chunk_size): the number of chunks of n entities
NumChunks(n) == (n + chunk_size - 1) \div chunk_size

\* chunks that step by chunk_size - 1, so that neighbours share an entity
Chunk_Overlapping(entities, c) ==
    SubSeq(entities, (c - 1) * (chunk_size - 1) + 1,
           Min((c - 1) * (chunk_size - 1) + chunk_size, Len(entities)))

\* par_chunks_mut(chunk_size): the c-th chunk of the snapshot
Chunk(entities, c) ==
    SubSeq(entities, (c - 1) * chunk_size + 1, Min(c * chunk_size, Len(entities)))

(***************************************************************************)
(* What a cursor operation touches.  A location is a part of the store     *)
(* that one memory access reads or writes: a slot of one of the tables     *)
(* (the row of an entity), or a field the entities share.                  *)
(***************************************************************************)
Loc(kind, T, i) == [k |-> kind, t |-> T, i |-> i]

\* the rows
LocSlot(i) == Loc("components.slot", NoType, i)
LocEntitySlot(i) == Loc("entities.slot", NoType, i)
LocTypeIds(i) == Loc("type_ids_on_entity.slot", NoType, i)
LocIndexSlot(T, i) == Loc("entities_with_components.slot", T, i)
\* the shared fields: free-list heads and lengths, the hash map's table, the
\* entry of a type in it, the length of a type's reverse index
LocComponentsHead == Loc("components.free_head", NoType, 0)
LocEntitiesHead == Loc("entities.free_head", NoType, 0)
LocTypeIdsLen == Loc("type_ids_on_entity.num_elems", NoType, 0)
LocIndexTable == Loc("entities_with_components.table", NoType, 0)
LocIndexEntry(T) == Loc("entities_with_components.entry", T, 0)
LocIndexLen(T) == Loc("entities_with_components.num_elems", T, 0)

Touch(R, W) == [R |-> R, W |-> W]
NoTouch == Touch({}, {})

\* add_component_to: the bag, the type list, and the reverse index of T: a
\* new entry of the table, or a slot of T's map (and its length if vacant)
TouchAdd(e, entity, T) ==
    LET k == entity.entity_id
        ewc == e.entities_with_components IN
    IF ~SmContains(e.components, k) THEN Touch({LocSlot(k.idx)}, {})
    ELSE Touch({LocSlot(k.idx), LocIndexTable, LocTypeIds(k.idx)},
               {LocSlot(k.idx), LocTypeIds(k.idx)}
               \cup (IF T \notin DOMAIN ewc
                     THEN {LocIndexTable, LocIndexEntry(T)}
                     ELSE IF k.idx \in DOMAIN ewc[T].slots
                     THEN {LocIndexSlot(T, k.idx)}
                     ELSE {LocIndexSlot(T, k.idx), LocIndexLen(T)}))

\* remove_component_from: the bag, the type list, and T's reverse index
TouchRemove(e, entity, T) ==
    LET k == entity.entity_id
        ewc == e.entities_with_components IN
    IF ~SmContains(e.components, k) THEN Touch({LocSlot(k.idx)}, {})
    ELSE Touch({LocSlot(k.idx), LocIndexTable, LocTypeIds(k.idx)},
               {LocSlot(k.idx), LocTypeIds(k.idx)}
               \cup (IF T \in DOMAIN ewc /\ SecContains(ewc[T], k)
                     THEN {LocIndexSlot(T, k.idx), LocIndexLen(T)}
                     ELSE {}))

\* remove_entity: the reverse index of every type of the type list, then the
\* three tables' slots with their lengths and free-list heads
TouchRemoveEntity(e, entity) ==
    LET k == entity.entity_id
        ewc == e.entities_with_components IN
    IF ~SecContains(e.type_ids_on_entity, k) THEN Touch({LocTypeIds(k.idx)}, {})
    ELSE LET held == {T \in SeqToSet(SecGet(e.type_ids_on_entity, k)) :
                        T \in DOMAIN ewc /\ SecContains(ewc[T], k)}
         IN Touch({LocTypeIds(k.idx), LocIndexTable},
                  {LocIndexSlot(T, k.idx) : T \in held}
                  \cup {LocIndexLen(T) : T \in held}
                  \cup {LocTypeIds(k.idx), LocTypeIdsLen}
                  \cup (IF SmContains(e.components, k)
                        THEN {LocSlot(k.idx), LocComponentsHead} ELSE {})
                  \cup (IF SmContains(e.entities, k)
                        THEN {LocEntitySlot(k.idx), LocEntitiesHead} ELSE {}))

\* get_components_mut and the write through it: the entity's bag
TouchMove(e, entity) ==
    IF Move(e, entity).panicked THEN Touch({LocSlot(entity.entity_id.idx)}, {})
    ELSE Touch({LocSlot(entity.entity_id.idx)}, {LocSlot(entity.entity_id.idx)})

\* the locations single_entity_step of a system reads and writes
Touches(kind, e, entity) ==
    CASE kind = ParallelMovementSystem -> TouchMove(e, entity)
      [] kind = AddTagSystem -> TouchAdd(e, entity, Tag)
      [] kind = RemoveVelocitySystem -> TouchRemove(e, entity, Velocity)
      [] kind = RemoveEntitySystem -> TouchRemoveEntity(e, entity)
      [] OTHER -> NoTouch

\* two accesses conflict: a location one writes and the other reads or writes
Conflict(a, b) ==
    \/ a.W \cap (b.R \cup b.W) # {}
    \/ b.W \cap a.R # {}

(***************************************************************************)
(* The per-entity phase hands every task a &mut to the one store through   *)
(* EntitiesAndComponentPtr::as_mut, so the accesses of a cursor operation  *)
(* are not atomic with respect to the other tasks.  An operation reads the *)
(* store when it starts and its writes land when it ends: the locations    *)
(* it writes take the values it computed from what it read, every other    *)
(* location keeps what the other tasks wrote meanwhile.                    *)
(***************************************************************************)
\* slots with the written indices taken from post, the others from cur
MergeSlots(cur, post, written) ==
    [i \in ((DOMAIN cur) \ written) \cup (written \cap DOMAIN post) |->
        IF i \in written THEN post[i] ELSE cur[i]]

MergeSlotMap(cur, post, slotsWritten, headWritten) ==
    [slots |-> MergeSlots(cur.slots, post.slots, slotsWritten),
     free_head |-> IF headWritten THEN post.free_head ELSE cur.free_head,
     num_elems |-> IF headWritten THEN post.num_elems ELSE cur.num_elems]

MergeSecondaryMap(cur, post, slotsWritten, lenWritten) ==
    [slots |-> MergeSlots(cur.slots, post.slots, slotsWritten),
     num_elems |-> IF lenWritten THEN post.num_elems ELSE cur.num_elems]

MergeIndex(cur, post, W) ==
    LET entries == {T \in DOMAIN post : LocIndexEntry(T) \in W} IN
    [T \in (DOMAIN cur) \cup entries |->
        IF T \in entries THEN post[T]
        ELSE IF T \in DOMAIN post
        THEN MergeSecondaryMap(cur[T], post[T],
                 {i \in (DOMAIN cur[T].slots) \cup (DOMAIN post[T].slots) :
                     LocIndexSlot(T, i) \in W},
                 LocIndexLen(T) \in W)
        ELSE cur[T]]

\* a write-back that stores the task's whole view of the store
WriteBack_WholeStore(cur, post, W) == post

\* the store cur after the writes W of an operation whose result is post
WriteBack(cur, post, W) ==
    [entities |->
        MergeSlotMap(cur.entities, post.entities,
            {i \in DOMAIN cur.entities.slots : LocEntitySlot(i) \in W},
            LocEntitiesHead \in W),
     components |->
        MergeSlotMap(cur.components, post.components,
            {i \in DOMAIN cur.components.slots : LocSlot(i) \in W},
            LocComponentsHead \in W),
     entities_with_components |->
        MergeIndex(cur.entities_with_components, post.entities_with_components, W),
     type_ids_on_entity |->
        MergeSecondaryMap(cur.type_ids_on_entity, post.type_ids_on_entity,
            {i \in (DOMAIN cur.type_ids_on_entity.slots)
                   \cup (DOMAIN post.type_ids_on_entity.slots) :
                LocTypeIds(i) \in W},
            LocTypeIdsLen \in W),
     resources |-> cur.resources]

\* an add_resource that keeps the resource already stored under the type
add_resource_KeepOld(e, T, r) ==
    [e EXCEPT !.resources =
        [t \in (DOMAIN @) \cup {T} |-> IF t \in DOMAIN @ THEN @[t] ELSE r]]

\* add_resource
add_resource(e, T, r) ==
    [e EXCEPT !.resources =
        [t \in (DOMAIN @) \cup {T} |-> IF t = T THEN r ELSE @[t]]]

\* get_resource / get_resource_mut: the resource stored under T, NoValue for
\* None (the downcast cannot fail: add_resource stores a T under TypeId::of T)
get_resource(e, T) ==
    IF T \in DOMAIN e.resources THEN e.resources[T] ELSE NoValue

\* remove_resource
remove_resource(e, T) ==
    [e EXCEPT !.resources = [t \in (DOMAIN @) \ {T} |-> @[t]]]

TestResource == "TestResource"
\* a second type that implements Resource
OtherResource == "OtherResource"
ResourceTypes == {TestResource, OtherResource}

RECURSIVE WorldWith(_)
\* a world of n entities, each added with a Position and a Velocity
WorldWith(n) ==
    IF n = 0 THEN add_resource(new, TestResource, 0)
    ELSE add_entity_with(WorldWith(n - 1),
                         <<Comp(Position, n - 1), Comp(Velocity, 1)>>).eac

\* the sequences over S of length at most n
RECURSIVE SeqsUpTo(_, _)
SeqsUpTo(S, n) ==
    IF n = 0 THEN {<< >>}
    ELSE LET shorter == SeqsUpTo(S, n - 1)
         IN shorter \cup {Append(q, x) : q \in shorter, x \in S}

(***************************************************************************)
(* State.                                                                  *)
(***************************************************************************)
VARIABLES
    eac,        \* the EntitiesAndComponents of the world
    handles,    \* the Entity handles the store has returned so far
    removed,    \* the handles whose remove_entity succeeded
    last,       \* the last call a client made and what it returned
    systems,    \* World::systems: the kind of each registered system
    sys_state,  \* each system's own state (PrestepSystem::postions)
    pc,         \* where World::run is: idle, prestep, entity, run, panicked
    tick,       \* the calls of World::run that have returned
    prestep_status, \* per system: its prestep task of this tick
    snapshot,   \* the entities get_entities returned for the per-entity phase
    tasks,      \* per chunk: the position of its task in its two loops
    run_idx,    \* the system the run phase is at
    tick_start, \* the store when the current call of World::run began
    cursor,     \* the entity of the SingleMutEntity a single_entity_step uses
    calls,      \* the calls that single_entity_step has made on it
    invoked,    \* per (snapshot entity, system): single_entity_step calls this tick
    resource_order, \* the resource types in the order add_resource inserted them
    update_order    \* the resource types in the order the last tick updated them

storeVars == <<eac, handles, removed, last>>
cursorVars == <<cursor, calls>>
resourceVars == <<resource_order, update_order>>
runVars == <<systems, sys_state, pc, tick, prestep_status, snapshot, tasks,
             run_idx, tick_start, cursorVars, invoked, resourceVars>>
vars == <<eac, handles, removed, last, systems, sys_state, pc, tick,
          prestep_status, snapshot, tasks, run_idx, tick_start, cursor, calls,
          invoked, resource_order, update_order>>

\* what the entity of a call held before the call: its bag and its type list
Before(e, h) ==
    IF SmContains(e.components, h.entity_id)
       /\ SecContains(e.type_ids_on_entity, h.entity_id)
    THEN [live |-> TRUE,
          bag |-> SmGet(e.components, h.entity_id),
          tids |-> SecGet(e.type_ids_on_entity, h.entity_id)]
    ELSE [live |-> FALSE, bag |-> << >>, tids |-> << >>]

NoCall == [op |-> "none", entity |-> NoEntity, type |-> NoType, value |-> NoValue,
           before |-> Before(new, NoEntity), panicked |-> FALSE,
           result |-> NoValue, comps |-> << >>]

\* a call of method o on handle h with type T and value v, and what it did;
\* for add_entity h is the handle it returned
Call(o, h, T, v, panicked, result) ==
    [op |-> o, entity |-> h, type |-> T, value |-> v,
     before |-> Before(eac, h), panicked |-> panicked, result |-> result,
     comps |-> << >>]

\* World::new with no system registered and World::run not called
IdleWorld ==
    /\ systems = << >>
    /\ sys_state = << >>
    /\ pc = "idle"
    /\ tick = 0
    /\ prestep_status = << >>
    /\ snapshot = << >>
    /\ tasks = << >>
    /\ run_idx = 0
    /\ tick_start = new
    /\ cursor = NoEntity
    /\ calls = 0
    /\ invoked = << >>
    /\ resource_order = << >>
    /\ update_order = << >>

Init ==
    /\ eac = new
    /\ handles = {}
    /\ removed = {}
    /\ last = NoCall
    /\ IdleWorld

\* what the entity removed by the call just made held, if the slot it freed
\* is the one the next add_entity takes (the free list is last-in first-out)
JustFreed(e, call) ==
    IF call.op = "remove_entity" /\ ~call.panicked
       /\ call.entity.entity_id.idx = SmNextKey(e.components).idx
    THEN [call.before EXCEPT !.live = FALSE]
    ELSE Before(new, NoEntity)

\* a client adds an entity; the call records what the entity that freed the
\* slot just before held
AddEntity ==
    /\ SmNextKey(eac.components).idx <= MaxSlots
    /\ SmNextKey(eac.components).version <= MaxVersion
    /\ LET r == add_entity(eac) IN
        /\ eac' = r.eac
        /\ handles' = handles \cup {r.result}
        /\ last' = [Call("add_entity", r.result, NoType, NoValue, FALSE, NoValue)
                      EXCEPT !.before = JustFreed(eac, last)]
    /\ UNCHANGED removed
    /\ UNCHANGED runVars

\* the tuples of one to MaxTypeList components a client passes
ComponentTuples ==
    SeqsUpTo({Comp(T, v) : T \in Types, v \in InputValues}, MaxTypeList) \ {<< >>}

\* a client adds an entity with a tuple of components
AddEntityWith ==
    \E comps \in ComponentTuples :
        /\ SmNextKey(eac.components).idx <= MaxSlots
        /\ SmNextKey(eac.components).version <= MaxVersion
        /\ LET r == add_entity_with(eac, comps) IN
            /\ eac' = r.eac
            /\ handles' = handles \cup {r.result}
            /\ last' = [Call("add_entity_with", r.result, NoType, NoValue, FALSE, NoValue)
                          EXCEPT !.comps = comps]
        /\ UNCHANGED removed
        /\ UNCHANGED runVars

\* a client removes an entity, through a live or a stale handle
RemoveEntity ==
    \E h \in handles :
        LET r == remove_entity(eac, h) IN
        /\ eac' = r.eac
        /\ removed' = IF r.panicked THEN removed ELSE removed \cup {h}
        /\ last' = Call("remove_entity", h, NoType, NoValue, r.panicked, NoValue)
        /\ UNCHANGED handles
        /\ UNCHANGED runVars

TypeListLen(e, h) ==
    IF SecContains(e.type_ids_on_entity, h.entity_id)
    THEN Len(SecGet(e.type_ids_on_entity, h.entity_id))
    ELSE 0

\* a client adds a component
AddComponentTo ==
    \E h \in handles, T \in Types, v \in InputValues :
        /\ TypeListLen(eac, h) < MaxTypeList
        /\ LET r == add_component_to(eac, h, T, v) IN
            /\ eac' = r.eac
            /\ last' = Call("add_component_to", h, T, v, r.panicked, NoValue)
        /\ UNCHANGED <<handles, removed, runVars>>

\* a client removes a component
RemoveComponentFrom ==
    \E h \in handles, T \in Types :
        LET r == remove_component_from(eac, h, T) IN
        /\ eac' = r.eac
        /\ last' = Call("remove_component_from", h, T, NoValue, r.panicked, NoValue)
        /\ UNCHANGED <<handles, removed, runVars>>

\* a client reads a component
TryGetComponent ==
    \E h \in handles, T \in Types :
        LET r == try_get_component(eac, h, T) IN
        /\ eac' = r.eac
        /\ last' = Call("try_get_component", h, T, NoValue, r.panicked, r.result)
        /\ UNCHANGED <<handles, removed, runVars>>

\* a client asks for an entity's whole bag
GetAllComponents ==
    \E h \in handles :
        LET r == get_all_components(eac, h) IN
        /\ eac' = r.eac
        /\ last' = Call("get_all_components", h, NoType, NoValue, r.panicked, NoValue)
        /\ UNCHANGED <<handles, removed, runVars>>

Next ==
    \/ AddEntity
    \/ AddEntityWith
    \/ RemoveEntity
    \/ AddComponentTo
    \/ RemoveComponentFrom
    \/ TryGetComponent
    \/ GetAllComponents

Spec == Init /\ [][Next]_vars

(***************************************************************************)
(* World::run.                                                             *)
(***************************************************************************)
\* a world of 1..MaxEntities entities and up to MaxSystems systems
InitRun ==
    /\ \E n \in 1..MaxEntities :
        /\ eac = WorldWith(n)
        /\ handles = SeqToSet(get_entities(WorldWith(n)))
    /\ removed = {}
    /\ last = NoCall
    /\ systems \in SeqsUpTo(SystemKinds, MaxSystems)
    /\ sys_state = [s \in 1..Len(systems) |-> << >>]
    /\ pc = "idle"
    /\ tick = 0
    /\ prestep_status = << >>
    /\ snapshot = << >>
    /\ tasks = << >>
    /\ run_idx = 0
    /\ tick_start = new
    /\ cursor = NoEntity
    /\ calls = 0
    /\ invoked = << >>
    /\ resource_order = <<TestResource>>
    /\ update_order = << >>

\* the systems whose implements_single_entity_step() is true, in order
systems_with_single_entity_step ==
    SelectSeq(systems, implements_single_entity_step)

\* the task of a chunk: the entity i of the chunk and the system j of
\* systems_with_single_entity_step it is at, whether an invocation is under
\* way, and then what the invocation touches and the store as it read it
Task(i, j, stage, touch, snap) ==
    [i |-> i, j |-> j, stage |-> stage, touch |-> touch, snap |-> snap]

\* the cursor the task of chunk c holds
CursorEntity(c) == Chunk(snapshot, c)[tasks[c].i]

\* the place of an entity in the snapshot that get_entities() returned
SnapshotIndex(entity) == CHOOSE n \in 1..Len(snapshot) : snapshot[n] = entity

\* an inner loop that walks the declaring systems from the last to the first
CursorSystem_Reversed(c) ==
    systems_with_single_entity_step[
        Len(systems_with_single_entity_step) + 1 - tasks[c].j]

\* the system whose single_entity_step the task of chunk c is at
CursorSystem(c) == systems_with_single_entity_step[tasks[c].j]

\* the sequences that hold each element of S exactly once
Orders(S) ==
    {q \in [1..Cardinality(S) -> S] : \A i, j \in 1..Cardinality(S) : q[i] = q[j] => i = j}

\* a World::run that returns before the resources' update when no system is
\* registered
WorldRun_ReturnFirst ==
    /\ pc = "idle"
    /\ tick < MaxTicks
    /\ get_entity_count(eac) <= MaxEntities
    /\ tick_start' = eac
    /\ \E order \in Orders(DOMAIN eac.resources) : update_order' = order
    /\ IF systems = << >>
       THEN /\ tick' = tick + 1
            /\ UNCHANGED <<eac, pc, prestep_status>>
       ELSE /\ eac' = [eac EXCEPT !.resources = [t \in DOMAIN @ |-> update(@[t])]]
            /\ pc' = "prestep"
            /\ prestep_status' =
                  [s \in 1..Len(systems) |->
                      IF implements_prestep(systems[s]) THEN "pending" ELSE "none"]
            /\ UNCHANGED tick
    /\ UNCHANGED <<handles, removed, last, cursorVars, invoked, resource_order, systems, sys_state,
                   snapshot, tasks, run_idx>>

\* a World::run that leaves the resources as they are
WorldRun_NoUpdate ==
    /\ pc = "idle"
    /\ tick < MaxTicks
    /\ get_entity_count(eac) <= MaxEntities
    /\ tick_start' = eac
    /\ update_order' = << >>
    /\ IF systems = << >>
       THEN /\ tick' = tick + 1
            /\ UNCHANGED <<pc, prestep_status>>
       ELSE /\ pc' = "prestep"
            /\ prestep_status' =
                  [s \in 1..Len(systems) |->
                      IF implements_prestep(systems[s]) THEN "pending" ELSE "none"]
            /\ UNCHANGED tick
    /\ UNCHANGED <<eac, handles, removed, last, cursorVars, invoked, resource_order,
                   systems, sys_state, snapshot, tasks, run_idx>>

\* for_each over the resources, then the early return or the prestep tasks;
\* the map is an FxHashMap, whose iteration order is the order of the hashes of
\* the TypeIds, any order of the keys as far as the program can tell
WorldRun ==
    /\ pc = "idle"
    /\ tick < MaxTicks
    /\ get_entity_count(eac) <= MaxEntities
    /\ tick_start' = eac
    /\ eac' = [eac EXCEPT !.resources = [t \in DOMAIN @ |-> update(@[t])]]
    /\ \E order \in Orders(DOMAIN eac.resources) : update_order' = order
    /\ IF systems = << >>
       THEN /\ tick' = tick + 1
            /\ UNCHANGED <<pc, prestep_status>>
       ELSE /\ pc' = "prestep"
            /\ prestep_status' =
                  [s \in 1..Len(systems) |->
                      IF implements_prestep(systems[s]) THEN "pending" ELSE "none"]
            /\ UNCHANGED tick
    /\ UNCHANGED <<handles, removed, last, cursorVars, invoked, resource_order, systems, sys_state, snapshot, tasks,
                   run_idx>>

\* a dispatch that also starts a prestep on a system whose prestep has ended
PrestepBegin_Again(s) ==
    /\ pc = "prestep"
    /\ prestep_status[s] \in {"pending", "done"}
    /\ prestep_status' = [prestep_status EXCEPT ![s] = "running"]
    /\ UNCHANGED <<storeVars, cursorVars, invoked, resourceVars, systems, sys_state,
                   pc, tick, snapshot, tasks, run_idx, tick_start>>

\* a worker takes the prestep of system s
PrestepBegin(s) ==
    /\ pc = "prestep"
    /\ prestep_status[s] = "pending"
    /\ prestep_status' = [prestep_status EXCEPT ![s] = "running"]
    /\ UNCHANGED <<storeVars, cursorVars, invoked, resourceVars, systems, sys_state, pc, tick, snapshot, tasks,
                   run_idx, tick_start>>

\* a prestep that removes an entity, as if the view's remove_entity took &self
PrestepEnd_Writes(s) ==
    /\ pc = "prestep"
    /\ prestep_status[s] = "running"
    /\ prestep_status' = [prestep_status EXCEPT ![s] = "done"]
    /\ sys_state' = [sys_state EXCEPT ![s] = prestep(systems[s], @, eac)]
    /\ eac' = remove_entity(eac, get_nth_entity(eac, 0)).eac
    /\ UNCHANGED <<handles, removed, last, cursorVars, invoked, resourceVars, systems, pc, tick,
                   snapshot, tasks, run_idx, tick_start>>

\* system.prestep(&thread_safe_entities_and_components) returns
PrestepEnd(s) ==
    /\ pc = "prestep"
    /\ prestep_status[s] = "running"
    /\ prestep_status' = [prestep_status EXCEPT ![s] = "done"]
    /\ sys_state' = [sys_state EXCEPT ![s] = prestep(systems[s], @, eac)]
    /\ UNCHANGED <<storeVars, cursorVars, invoked, resourceVars, systems, pc, tick, snapshot, tasks, run_idx,
                   tick_start>>

\* a for_each that does not wait for the tasks it spawned
PrestepJoined_NoWait == TRUE

\* par_iter_mut().for_each returns when every prestep has returned
PrestepJoined == \A s \in DOMAIN prestep_status : prestep_status[s] \in {"none", "done"}

\* the per-entity phase starts: the snapshot and one task per chunk, or
\* nothing when no system declares single_entity_step
BeginEntityPhase ==
    /\ pc = "prestep"
    /\ PrestepJoined
    /\ pc' = "entity"
    /\ IF systems_with_single_entity_step = << >>
       THEN /\ snapshot' = << >>
            /\ tasks' = << >>
       ELSE /\ snapshot' = get_entities(eac)
            /\ tasks' = [c \in 1..NumChunks(Len(get_entities(eac))) |->
                            Task(1, 1, "ready", NoTouch, new)]
    /\ invoked' = [p \in (1..Len(snapshot')) \X
                          (1..Len(systems_with_single_entity_step)) |-> 0]
    /\ UNCHANGED <<storeVars, cursorVars, resourceVars, systems, sys_state, tick, prestep_status, run_idx,
                   tick_start>>

\* the task of chunk c builds a cursor and enters single_entity_step
StepBegin(c) ==
    /\ pc = "entity"
    /\ tasks[c].stage = "ready"
    /\ tasks' = [tasks EXCEPT ![c] =
                    Task(@.i, @.j, "step",
                         Touches(CursorSystem(c), eac, CursorEntity(c)), eac)]
    /\ invoked' = [invoked EXCEPT ![<<SnapshotIndex(CursorEntity(c)), tasks[c].j>>] = @ + 1]
    /\ UNCHANGED <<storeVars, cursorVars, resourceVars, systems, sys_state, pc, tick, prestep_status,
                   snapshot, run_idx, tick_start>>

\* the position after (i, j) in the loops of a chunk of n entities
NextTask(i, j, n) ==
    IF j < Len(systems_with_single_entity_step)
    THEN Task(i, j + 1, "ready", NoTouch, new)
    ELSE IF i < n THEN Task(i + 1, 1, "ready", NoTouch, new)
    ELSE Task(i, j, "done", NoTouch, new)

\* single_entity_step returns or panics; its writes reach the store
StepEnd(c) ==
    /\ pc = "entity"
    /\ tasks[c].stage = "step"
    /\ LET r == single_entity_step(CursorSystem(c), tasks[c].snap, CursorEntity(c))
       IN /\ eac' = WriteBack(eac, r.eac, tasks[c].touch.W)
          /\ tasks' = [tasks EXCEPT ![c] =
                          IF r.panicked
                          THEN Task(@.i, @.j, "panicked", NoTouch, new)
                          ELSE NextTask(@.i, @.j, Len(Chunk(snapshot, c)))]
    /\ UNCHANGED <<handles, removed, last, cursorVars, invoked, resourceVars, systems, sys_state, pc, tick,
                   prestep_status, snapshot, run_idx, tick_start>>

\* par_chunks.for_each returns when every chunk's task has ended
EntityJoined == \A c \in DOMAIN tasks : tasks[c].stage \in {"done", "panicked"}

\* the run phase starts, unless a task panicked
BeginRunPhase ==
    /\ pc = "entity"
    /\ EntityJoined
    /\ IF \E c \in DOMAIN tasks : tasks[c].stage = "panicked"
       THEN pc' = "panicked" /\ UNCHANGED run_idx
       ELSE pc' = "run" /\ run_idx' = 1
    /\ UNCHANGED <<storeVars, cursorVars, invoked, resourceVars, systems, sys_state, tick, prestep_status, snapshot,
                   tasks, tick_start>>

\* a run loop that walks the systems from the last to the first
RunSystem_Reversed ==
    /\ pc = "run"
    /\ run_idx <= Len(systems)
    /\ LET s == Len(systems) + 1 - run_idx
           r == run(systems[s], sys_state[s], eac)
       IN /\ eac' = r.eac
          /\ pc' = IF r.panicked THEN "panicked" ELSE "run"
    /\ run_idx' = run_idx + 1
    /\ UNCHANGED <<handles, removed, last, cursorVars, invoked, resourceVars, systems, sys_state, tick,
                   prestep_status, snapshot, tasks, tick_start>>

\* system.run(&mut self.entities_and_components) of the next system
RunSystem ==
    /\ pc = "run"
    /\ run_idx <= Len(systems)
    /\ LET r == run(systems[run_idx], sys_state[run_idx], eac)
       IN /\ eac' = r.eac
          /\ pc' = IF r.panicked THEN "panicked" ELSE "run"
    /\ run_idx' = run_idx + 1
    /\ UNCHANGED <<handles, removed, last, cursorVars, invoked, resourceVars, systems, sys_state, tick,
                   prestep_status, snapshot, tasks, tick_start>>

\* World::run returns, and its locals are gone
ReturnFromRun ==
    /\ pc = "run"
    /\ run_idx > Len(systems)
    /\ pc' = "idle"
    /\ tick' = tick + 1
    /\ prestep_status' = << >>
    /\ snapshot' = << >>
    /\ tasks' = << >>
    /\ run_idx' = 0
    /\ invoked' = << >>
    /\ UNCHANGED <<storeVars, cursorVars, resourceVars, systems, sys_state, tick_start>>

NextRun ==
    \/ WorldRun
    \/ \E s \in DOMAIN prestep_status : PrestepBegin(s)
    \/ \E s \in DOMAIN prestep_status : PrestepEnd(s)
    \/ BeginEntityPhase
    \/ \E c \in DOMAIN tasks : StepBegin(c)
    \/ \E c \in DOMAIN tasks : StepEnd(c)
    \/ BeginRunPhase
    \/ RunSystem
    \/ ReturnFromRun

SpecRun == InitRun /\ [][NextRun]_vars

\* what World::run and its tasks are at
sched == <<pc, prestep_status, tasks, run_idx>>

\* StepEnd(c) as sched shows it: the task leaves its invocation for its next
\* position or for a panic, whatever the hook did to the store
StepReturns(c) ==
    /\ pc = "entity"
    /\ tasks[c].stage = "step"
    /\ tasks' \in {[tasks EXCEPT ![c] = t] :
                     t \in {Task(tasks[c].i, tasks[c].j, "panicked", NoTouch, new),
                            NextTask(tasks[c].i, tasks[c].j, Len(Chunk(snapshot, c)))}}
    /\ UNCHANGED <<pc, prestep_status, run_idx>>

\* RunSystem as sched shows it: the loop of the run phase moves on to the next
\* system or ends in a panic, whatever run did to the store
RunReturns ==
    /\ pc = "run"
    /\ run_idx <= Len(systems)
    /\ run_idx' = run_idx + 1
    /\ pc' \in {"run", "panicked"}
    /\ UNCHANGED <<prestep_status, tasks>>

\* the steps of a tick under way: those of the thread that called World::run
\* and of rayon's workers, which run a task they were given to its end; a hook
\* that was called returns or panics
TickStep ==
    \/ \E s \in DOMAIN prestep_status : PrestepBegin(s)
    \/ \E s \in DOMAIN prestep_status : PrestepEnd(s)
    \/ BeginEntityPhase
    \/ \E c \in DOMAIN tasks : StepBegin(c)
    \/ \E c \in DOMAIN tasks : StepReturns(c)
    \/ BeginRunPhase
    \/ RunReturns
    \/ ReturnFromRun

\* World::run with hooks that end and threads that go on; the client need not
\* call World::run again
SpecRunFair == SpecRun /\ WF_sched(TickStep)

(***************************************************************************)
(* One single_entity_step of the per-entity phase, making up to MaxCalls   *)
(* calls on its cursor; a call that panics unwinds the step.               *)
(***************************************************************************)
ScriptSystem == "ScriptSystem"

\* a task of World::run has built the cursor on an entity of the snapshot
\* and entered single_entity_step
InitCursor ==
    /\ \E n \in 1..MaxSlots :
        /\ eac = WorldWith(n)
        /\ handles = SeqToSet(get_entities(WorldWith(n)))
        /\ snapshot = get_entities(WorldWith(n))
        /\ tick_start = WorldWith(n)
        /\ \E i \in 1..n :
            /\ cursor = get_entities(WorldWith(n))[i]
            /\ tasks = <<Task(i, 1, "step", NoTouch, new)>>
    /\ removed = {}
    /\ last = NoCall
    /\ systems = <<ScriptSystem>>
    /\ sys_state = << << >> >>
    /\ pc = "entity"
    /\ tick = 0
    /\ prestep_status = <<"none">>
    /\ run_idx = 0
    /\ calls = 0
    /\ invoked = << >>
    /\ resource_order = <<TestResource>>
    /\ update_order = << >>

\* the step makes call o with type T and value v, whose outcome is r
CursorCall(o, T, v, r) ==
    /\ cursor # NoEntity
    /\ calls < MaxCalls
    /\ eac' = r.eac
    /\ last' = Call(o, cursor, T, v, r.panicked, r.result)
    /\ calls' = calls + 1
    /\ cursor' = IF r.panicked THEN NoEntity ELSE cursor
    /\ UNCHANGED <<handles, systems, sys_state, pc, tick, prestep_status,
                   snapshot, tasks, run_idx, tick_start, invoked, resourceVars>>

CursorGetComponent ==
    \E T \in AllTypes, o \in {"get_component", "get_component_mut"} :
        /\ CursorCall(o, T, NoValue, get_component(eac, cursor, T))
        /\ UNCHANGED removed

CursorTryGetComponent ==
    \E T \in AllTypes, o \in {"try_get_component", "try_get_component_mut"} :
        /\ CursorCall(o, T, NoValue, try_get_component(eac, cursor, T))
        /\ UNCHANGED removed

\* get_components::<(T,)> / get_components_mut::<(T,)>, the call recording the
\* one component of the tuple
CursorGetComponents ==
    \E T \in AllTypes, o \in {"get_components", "get_components_mut"} :
        LET r == get_components(eac, cursor, <<T>>) IN
        /\ CursorCall(o, T, NoValue,
                      IF r.panicked THEN r ELSE Ret(r.eac, r.result[1]))
        /\ UNCHANGED removed

\* try_get_components::<(T,)> / try_get_components_mut::<(T,)>
CursorTryGetComponents ==
    \E T \in AllTypes, o \in {"try_get_components", "try_get_components_mut"} :
        LET r == try_get_components(eac, cursor, <<T>>) IN
        /\ CursorCall(o, T, NoValue,
                      IF r.panicked THEN r ELSE Ret(r.eac, r.result[1]))
        /\ UNCHANGED removed

CursorHasComponent ==
    \E T \in AllTypes :
        /\ CursorCall("has_component", T, NoValue, has_component(eac, cursor, T))
        /\ UNCHANGED removed

CursorAddComponent ==
    \E T \in AllTypes, v \in InputValues :
        /\ CursorCall("add_component", T, v, add_component_to(eac, cursor, T, v))
        /\ UNCHANGED removed

CursorRemoveComponent ==
    \E T \in AllTypes :
        /\ CursorCall("remove_component", T, NoValue,
                      remove_component_from(eac, cursor, T))
        /\ UNCHANGED removed

CursorRemoveEntity ==
    /\ CursorCall("remove_entity", NoType, NoValue, remove_entity(eac, cursor))
    /\ removed' = IF remove_entity(eac, cursor).panicked
                  THEN removed ELSE removed \cup {cursor}

CursorGetEntity ==
    /\ CursorCall("get_entity", NoType, NoValue, Ret(eac, NoValue))
    /\ last'.entity = get_entity(cursor)
    /\ UNCHANGED removed

NextCursor ==
    \/ CursorGetComponent
    \/ CursorTryGetComponent
    \/ CursorGetComponents
    \/ CursorTryGetComponents
    \/ CursorHasComponent
    \/ CursorAddComponent
    \/ CursorRemoveComponent
    \/ CursorRemoveEntity
    \/ CursorGetEntity

SpecCursor == InitCursor /\ [][NextCursor]_vars

(***************************************************************************)
(* The resources of a world with no system: a client adds, reads and       *)
(* removes resources between calls of World::run.                          *)
(***************************************************************************)
InitResource ==
    /\ \E n \in 0..MaxSlots :
        /\ eac = [WorldWith(n) EXCEPT !.resources = << >>]
        /\ handles = SeqToSet(get_entities(WorldWith(n)))
    /\ removed = {}
    /\ last = NoCall
    /\ IdleWorld

\* the order of insertion after add_resource of type T: HashMap::insert on a
\* key that is present replaces the value and leaves the entry where it is
Inserted(order, T) ==
    IF T \in SeqToSet(order) THEN order ELSE Append(order, T)

\* a call of a resource method between two ticks
ResourceCall(o, T, v, e, result) ==
    /\ pc = "idle"
    /\ eac' = e
    /\ last' = Call(o, NoEntity, T, v, FALSE, result)
    /\ UNCHANGED <<handles, removed, systems, sys_state, pc, tick, prestep_status,
                   snapshot, tasks, run_idx, tick_start, cursorVars, invoked,
                   update_order>>

\* add_resource; the call records what HashMap::insert displaced
AddResource ==
    \E T \in ResourceTypes, v \in InputValues :
        /\ ResourceCall("add_resource", T, v, add_resource(eac, T, v),
                        get_resource(eac, T))
        /\ resource_order' = Inserted(resource_order, T)

GetResource ==
    \E T \in ResourceTypes :
        /\ ResourceCall("get_resource", T, NoValue, eac, get_resource(eac, T))
        /\ UNCHANGED resource_order

\* remove_resource; the call records what HashMap::remove took out
RemoveResource ==
    \E T \in ResourceTypes :
        /\ ResourceCall("remove_resource", T, NoValue, remove_resource(eac, T),
                        get_resource(eac, T))
        /\ resource_order' = SelectSeq(resource_order, LAMBDA t : t # T)

NextResource ==
    \/ AddResource
    \/ GetResource
    \/ RemoveResource
    \/ WorldRun

SpecResource == InitResource /\ [][NextResource]_vars

(***************************************************************************)
(* Properties of the store, checked under Spec.                            *)
(***************************************************************************)
\* the handles of the entities added and not yet removed
LiveHandles == handles \ removed

\* the calls that take a handle
HandleOps == {"remove_entity", "add_component_to", "remove_component_from",
              "try_get_component", "get_all_components"}

\* a handle is valid iff a table of the store holds its (index, version)
IsValid(e, h) ==
    \/ SmContains(e.components, h.entity_id)
    \/ SmContains(e.entities, h.entity_id)
    \/ SecContains(e.type_ids_on_entity, h.entity_id)
    \/ h \in SeqToSet(get_entities(e))

BagOf(e, h) == SmGet(e.components, h.entity_id)

\* C5: every live entity is yielded by get_entities_with_component<T>() for
\* every component type T present in its bag.
C5_LiveHoldersAreIndexed ==
    \A h \in LiveHandles : \A T \in DOMAIN BagOf(eac, h) :
        h \in SeqToSet(get_entities_with_component(eac, T))

\* two live entities hold the same type, one added after the other
C5_Witness ==
    /\ last.op = "add_component_to" /\ ~last.panicked
    /\ \E h1, h2 \in LiveHandles :
        /\ h1 # h2
        /\ last.type \in DOMAIN BagOf(eac, h1)
        /\ last.type \in DOMAIN BagOf(eac, h2)

\* C6: every handle yielded by get_entities_with_component<T>() is a live
\* entity on which try_get_component<T> returns a value: no panic, no None.
C6_IndexedAreLiveHolders ==
    \A T \in Types :
        \A h \in SeqToSet(get_entities_with_component(eac, T)) :
            /\ h \in LiveHandles
            /\ ~try_get_component(eac, h, T).panicked
            /\ T \in DOMAIN BagOf(eac, h)
            /\ try_get_component(eac, h, T).result # NoValue

\* a component was removed from an entity that held it, while another entity
\* is still indexed under that type
C6_Witness ==
    /\ last.op = "remove_component_from" /\ ~last.panicked
    /\ last.type \in DOMAIN last.before.bag
    /\ get_entities_with_component(eac, last.type) # << >>

\* C7: once remove_entity(H) has succeeded, H is not valid and no
\* get_entities_with_component<T>() yields it.
C7_RemovedIsGone ==
    \A h \in removed :
        /\ ~IsValid(eac, h)
        /\ \A T \in Types : h \notin SeqToSet(get_entities_with_component(eac, T))

\* the removed entity held a type that was added twice, and another entity lives on
C7_Witness ==
    /\ last.op = "remove_entity" /\ ~last.panicked
    /\ Len(last.before.tids) > Cardinality(DOMAIN last.before.bag)
    /\ LiveHandles # {}

\* C8: add_entity never returns a handle it has returned before.
C8_FreshHandle ==
    [][last'.op = "add_entity" => last'.entity \notin handles]_vars

\* add_entity reused the slot of a removed entity
C8_Witness ==
    /\ last.op = "add_entity"
    /\ \E h \in removed : h.entity_id.idx = last.entity.entity_id.idx

\* C9: a call through a handle whose entity was removed panics and leaves
\* the store as it was.
C9_StaleHandlePanics ==
    [][(last'.op \in HandleOps /\ last'.entity \in removed)
          => (last'.panicked /\ eac' = eac)]_vars

\* a mutating call through a stale handle whose slot a new entity reuses
C9_Witness ==
    /\ last.op = "add_component_to" /\ last.panicked
    /\ last.entity \in removed
    /\ \E h \in LiveHandles : h.entity_id.idx = last.entity.entity_id.idx

\* C10: after add_component_to<T>(H, v) on a live entity, try_get_component<T>(H)
\* returns v, whether or not H held a T before.
C10_AddThenGet ==
    (last.op = "add_component_to" /\ ~last.panicked)
        => LET r == try_get_component(eac, last.entity, last.type)
           IN ~r.panicked /\ r.result = last.value

\* the entity already held a T with another value
C10_Witness ==
    /\ last.op = "add_component_to" /\ ~last.panicked
    /\ last.type \in DOMAIN last.before.bag
    /\ last.before.bag[last.type] # last.value

TypeListOf(e, h) == SecGet(e.type_ids_on_entity, h.entity_id)

\* C11: the type list of every live entity holds each component type at most
\* once; add_component_to<T> on an entity that holds a T adds no second entry.
C11_TypeListHasNoDuplicates ==
    \A h \in LiveHandles :
        Len(TypeListOf(eac, h)) = Cardinality(SeqToSet(TypeListOf(eac, h)))

\* C12: for every live entity the set of the types of its type list is the
\* set of the component types of its bag.
C12_TypeListMatchesBag ==
    \A h \in LiveHandles :
        SeqToSet(TypeListOf(eac, h)) = DOMAIN BagOf(eac, h)

\* a type that the list held twice was removed from an entity
C12_Witness ==
    /\ last.op = "remove_component_from" /\ ~last.panicked
    /\ Cardinality({i \in 1..Len(last.before.tids) :
                        last.before.tids[i] = last.type}) >= 2

\* C13: the entity add_entity returns holds no component, no
\* get_entities_with_component<T>() yields it and try_get_components on it
\* returns None for every type, also when it reuses the slot of a removed
\* entity that held components.
C13_NewEntityIsEmpty ==
    last.op = "add_entity" =>
        /\ BagOf(eac, last.entity) = EmptyBag
        /\ \A T \in Types :
              /\ last.entity \notin SeqToSet(get_entities_with_component(eac, T))
              /\ try_get_component(eac, last.entity, T) = Ret(eac, NoValue)
        /\ try_get_components(eac, last.entity, <<Position, Velocity>>)
              = Ret(eac, <<NoValue, NoValue>>)

\* add_entity reused the slot of an entity that held components when removed
C13_Witness ==
    /\ last.op = "add_entity"
    /\ last.before.bag # EmptyBag
    /\ last.entity.entity_id.version > 1

\* C14: remove_component_from<T>(H) on a live entity that holds no T does not
\* panic and leaves the whole store as it was.
C14_RemoveAbsentIsNoOp ==
    [][(/\ last'.op = "remove_component_from"
        /\ last'.before.live
        /\ last'.type \notin DOMAIN last'.before.bag)
          => (~last'.panicked /\ eac' = eac)]_vars

\* the entity held another type, and another entity held the absent one
C14_Witness ==
    /\ last.op = "remove_component_from" /\ ~last.panicked
    /\ last.before.live
    /\ last.type \notin DOMAIN last.before.bag
    /\ last.before.bag # EmptyBag
    /\ get_entities_with_component(eac, last.type) # << >>

\* the live entities whose bag holds a component of type T
Holders(T) == {h \in LiveHandles : T \in DOMAIN BagOf(eac, h)}

\* C27: get_entity_count_with_component<T>() equals the number of handles
\* that get_entities_with_component<T>() yields, which equals the number of
\* live entities whose bag holds a T, each counted once, also after T was
\* added to an entity more than once.
C27_CountWithComponent ==
    \A T \in Types :
        /\ get_entity_count_with_component(eac, T) =
              Len(get_entities_with_component(eac, T))
        /\ Len(get_entities_with_component(eac, T)) = Cardinality(Holders(T))
        /\ SeqToSet(get_entities_with_component(eac, T)) = Holders(T)

\* a component was added to an entity that held one of the type, while
\* another live entity holds one too
C27_Witness ==
    /\ last.op = "add_component_to" /\ ~last.panicked
    /\ last.type \in DOMAIN last.before.bag
    /\ get_entity_count_with_component(eac, last.type) = 2

\* C28: get_entity_count() equals the number of entities added and not yet
\* removed, and get_entities() returns exactly those live handles, each once;
\* removing the only entity gives a count of 0.
C28_EntityCount ==
    /\ get_entity_count(eac) = Cardinality(LiveHandles)
    /\ Len(get_entities(eac)) = Cardinality(LiveHandles)
    /\ SeqToSet(get_entities(eac)) = LiveHandles

\* the only live entity was removed, after others had come and gone
C28_Witness ==
    /\ last.op = "remove_entity" /\ ~last.panicked
    /\ Cardinality(handles) > 1
    /\ LiveHandles = {}
    /\ get_entity_count(eac) = 0
    /\ get_entities(eac) = << >>

\* the indices a caller may pass to get_nth_entity: those of a loop over
\* 0..get_entity_count() and some past its end
NthIndices == 0..(MaxSlots + 1)

\* C29: get_nth_entity(i) returns a live handle for every i below
\* get_entity_count() and None for every other i, and over the i below
\* get_entity_count() it returns every live entity exactly once.
C29_NthEntity ==
    /\ \A i \in NthIndices :
          IF i < get_entity_count(eac)
          THEN get_nth_entity(eac, i) \in LiveHandles
          ELSE get_nth_entity(eac, i) = NoEntity
    /\ \A h \in LiveHandles :
          Cardinality({i \in NthIndices : get_nth_entity(eac, i) = h}) = 1

\* the entity of the first slot was removed and the one of the second lives
C29_Witness ==
    /\ last.op = "remove_entity" /\ ~last.panicked
    /\ last.entity.entity_id.idx = 1
    /\ get_entity_count(eac) = 1
    /\ get_nth_entity(eac, 0) \in LiveHandles
    /\ get_nth_entity(eac, 0).entity_id.idx = 2

\* the store after add_component_to for the first n components of comps
RECURSIVE OneByOne(_, _, _, _)
OneByOne(e, entity, comps, n) ==
    IF n = 0 THEN e
    ELSE add_component_to(OneByOne(e, entity, comps, n - 1), entity,
                          comps[n].type, comps[n].value).eac

Without(f, T) == [t \in (DOMAIN f) \ {T} |-> f[t]]

\* the handles a sequence yields, but for h
Others(q, h) == SeqToSet(q) \ {h}

SmKeys(sm) ==
    {Key(i, sm.slots[i].version) : i \in {j \in 1..Len(sm.slots) : SmOccupied(sm.slots[j])}}

\* the keys of a SecondaryMap
SecKeys(m) == {Key(i, m.slots[i].version) : i \in DOMAIN m.slots}

\* C33: the entities table, the components table and the type-list table hold
\* the same keys after any sequence of calls, failed calls with stale handles
\* included, and the Entity stored under key k of the entities table carries
\* entity_id = k.
C33_TablesInLockstep ==
    /\ SmKeys(eac.entities) = SmKeys(eac.components)
    /\ SmKeys(eac.components) = SecKeys(eac.type_ids_on_entity)
    /\ \A k \in SmKeys(eac.entities) : SmGet(eac.entities, k).entity_id = k

\* a remove_entity with the stale handle of a slot that a live entity took
\* over has failed
C33_Witness ==
    /\ last.op = "remove_entity" /\ last.panicked
    /\ \E k \in SmKeys(eac.entities) :
          /\ k.idx = last.entity.entity_id.idx
          /\ k.version > last.entity.entity_id.version
    /\ Cardinality(SmKeys(eac.entities)) = 2

(***************************************************************************)
(* Properties of World::run, checked under SpecRun.                        *)
(***************************************************************************)
\* the chunk tasks that are inside a single_entity_step invocation
Stepping == {c \in DOMAIN tasks : tasks[c].stage = "step"}

\* the places (chunk, position) of the snapshot's n-th entity in the chunks
PlacesOf(n) ==
    {<<c, i>> \in (DOMAIN tasks) \X (1..chunk_size) :
        i <= Len(Chunk(snapshot, c)) /\ Chunk(snapshot, c)[i] = snapshot[n]}

\* C1: no two invocations of single_entity_step under way at the same time
\* hold cursors on the same entity, and every entity of the snapshot is in
\* exactly one chunk.
C1_CursorsOnDistinctEntities ==
    /\ \A c1, c2 \in Stepping : c1 # c2 => CursorEntity(c1) # CursorEntity(c2)
    /\ pc = "entity" => \A n \in 1..Len(snapshot) : Cardinality(PlacesOf(n)) = 1

\* two chunk tasks are inside single_entity_step at the same time
C1_Witness == Cardinality(Stepping) >= 2

\* C2: two invocations of single_entity_step under way at the same time never
\* touch the same part of the store with one of them writing it.
C2_NoConflictingAccess ==
    \A c1, c2 \in Stepping :
        c1 # c2 => ~Conflict(tasks[c1].touch, tasks[c2].touch)

RECURSIVE SerialSteps(_, _, _)
\* the per-entity phase run by one worker: for each entity of the snapshot,
\* each declaring system in order
SerialSteps(e, es, kinds) ==
    IF es = << >> THEN e
    ELSE IF kinds = << >>
    THEN SerialSteps(e, Tail(es), systems_with_single_entity_step)
    ELSE SerialSteps(single_entity_step(Head(kinds), e, Head(es)).eac, es, Tail(kinds))

RECURSIVE SerialRuns(_, _)
\* the run phase from system s on
SerialRuns(e, s) ==
    IF s > Len(systems) THEN e
    ELSE SerialRuns(run(systems[s], sys_state[s], e).eac, s + 1)

\* a call of World::run on store e with a single worker
SerialTick(e) ==
    LET e1 == [e EXCEPT !.resources = [t \in DOMAIN @ |-> update(@[t])]]
        e2 == IF systems_with_single_entity_step = << >> THEN e1
              ELSE SerialSteps(e1, get_entities(e1), systems_with_single_entity_step)
    IN SerialRuns(e2, 1)

\* systems that only read and write the components of the entities they visit
ValueOnly ==
    /\ systems # << >>
    /\ \A s \in DOMAIN systems :
        systems[s] \in {MovementSystem, ParallelMovementSystem}

\* C3: with serial run systems and per-entity systems that only read and write
\* their cursor's components, the store a tick leaves is the one a single
\* worker would leave, whatever the interleaving of the chunk tasks.
C3_TickIsDeterministic ==
    (ValueOnly /\ pc = "idle" /\ tick > 0) => eac = SerialTick(tick_start)

\* two ticks of a serial and a per-entity movement system over two chunks
C3_Witness ==
    /\ pc = "idle" /\ tick = 2
    /\ Len(get_entities(eac)) > chunk_size
    /\ \E s1, s2 \in DOMAIN systems :
        systems[s1] = MovementSystem /\ systems[s2] = ParallelMovementSystem

\* C4: no single_entity_step starts before every prestep of the tick has
\* returned, no run starts before every single_entity_step has returned, and
\* a system's run finds in its own state what its prestep wrote this tick.
C4_PhasesAreOrdered ==
    /\ (\E c \in DOMAIN tasks : tasks[c].stage # "ready" \/ tasks[c].i > 1 \/ tasks[c].j > 1)
          => \A s \in DOMAIN prestep_status : prestep_status[s] \in {"none", "done"}
    /\ pc = "run"
          => /\ \A s \in DOMAIN prestep_status : prestep_status[s] \in {"none", "done"}
             /\ \A c \in DOMAIN tasks : tasks[c].stage = "done"
             /\ \A s \in DOMAIN systems :
                  (s >= run_idx /\ implements_prestep(systems[s]))
                      => sys_state[s] = prestep(systems[s], << >>, tick_start)

\* the run of a PrestepSystem is next, after a per-entity phase with tasks
C4_Witness ==
    /\ pc = "run" /\ run_idx \in DOMAIN systems
    /\ implements_prestep(systems[run_idx])
    /\ sys_state[run_idx] # << >>
    /\ tasks # << >>

\* C17: the prestep phase does not modify the store: entities, bags, reverse
\* index, type lists and resources are at its end what they were at its
\* start, whatever the prestep systems and their interleaving.
C17_PrestepLeavesStore ==
    [][pc = "prestep" => eac' = eac]_vars

\* one prestep has returned with what it collected while another is running
C17_Witness ==
    /\ pc = "prestep"
    /\ \E s1, s2 \in DOMAIN prestep_status :
        /\ prestep_status[s1] = "done" /\ sys_state[s1] # << >>
        /\ prestep_status[s2] = "running"

\* every entity holds Position = its initial value + n and Velocity = 1
MovedBy(e, n) ==
    \A i \in 1..Len(get_entities(e)) :
        BagOf(e, get_entities(e)[i]) =
            [t \in Types |-> IF t = Position THEN (i - 1) + n ELSE 1]

\* C18: a tick invokes run once on every registered system, serially and in
\* registration order, whatever other hooks the system declares; a serial
\* movement system leaves Position = initial + n * Velocity after n ticks.
C18_RunsOnceInOrder ==
    [][/\ (pc # "run" /\ pc' = "run") => run_idx' = 1
       /\ (pc = "run" /\ pc' # "idle")
            => /\ run_idx \in DOMAIN systems
               /\ run_idx' = run_idx + 1
               /\ eac' = run(systems[run_idx], sys_state[run_idx], eac).eac
       /\ (pc = "run" /\ pc' = "idle")
            => (run_idx = Len(systems) + 1 /\ eac' = eac)
       /\ (pc' = "idle" /\ systems = <<MovementSystem>>)
            => MovedBy(eac', tick')]_vars

\* the run of a movement system has returned and the run of a system that
\* also declares prestep is next
C18_Witness ==
    /\ pc = "run" /\ run_idx = 2
    /\ systems = <<MovementSystem, PrestepSystem>>
    /\ sys_state[2] # << >>
    /\ eac # tick_start

\* the store after the resources' update
AfterUpdate(e) == [e EXCEPT !.resources = [t \in DOMAIN @ |-> update(@[t])]]

\* the systems that declare single_entity_step, in registration order
DeclaringSystems == SelectSeq(systems, implements_single_entity_step)

RECURSIVE StepsOn(_, _, _)
\* the single_entity_step of each system of kinds, in order, on one entity
StepsOn(e, entity, kinds) ==
    IF kinds = << >> THEN Ret(e, NoValue)
    ELSE LET r == single_entity_step(Head(kinds), e, entity)
         IN IF r.panicked THEN r ELSE StepsOn(r.eac, entity, Tail(kinds))

\* C19: for any fixed entity the single_entity_step invocations of the
\* declaring systems happen one after another in registration order: when
\* the phase has ended, the entity's row is what those invocations, in that
\* order, leave of it.
C19_StepsInRegistrationOrder ==
    (pc = "run" /\ run_idx = 1 /\ DeclaringSystems # << >>) =>
        \A n \in 1..Len(snapshot) :
            LET k == snapshot[n].entity_id
                r == StepsOn(AfterUpdate(tick_start), snapshot[n], DeclaringSystems)
            IN /\ ~r.panicked
               /\ eac.components.slots[k.idx].version
                    = r.eac.components.slots[k.idx].version
               /\ eac.components.slots[k.idx].value
                    = r.eac.components.slots[k.idx].value

\* two chunks went through a system that moves and then one that removes
\* what the first reads
C19_Witness ==
    /\ pc = "run" /\ run_idx = 1
    /\ systems = <<ParallelMovementSystem, RemoveVelocitySystem>>
    /\ Len(tasks) >= 2

\* C20: a tick calls update once on every resource present at its start,
\* also when no system is registered: after n ticks the counter is its
\* initial value + n.
C20_ResourcesUpdatedOncePerTick ==
    /\ DOMAIN eac.resources = {TestResource}
    /\ pc = "idle" => eac.resources[TestResource] = tick
    /\ pc # "idle" => eac.resources[TestResource] = tick + 1

\* two ticks of a world without systems
C20_Witness ==
    /\ systems = << >>
    /\ pc = "idle" /\ tick = 2
    /\ eac.resources[TestResource] = 2

\* the places (chunk, position in the chunk) of the tasks at which a snapshot
\* entity stands
ChunkPlaces(n) ==
    {p \in (DOMAIN tasks) \X (1..chunk_size) :
        /\ p[2] <= Len(Chunk(snapshot, p[1]))
        /\ Chunk(snapshot, p[1])[p[2]] = snapshot[n]}

C23_CursorEntityIsLive ==
    \A c \in Stepping :
        SmContains(tasks[c].snap.components, CursorEntity(c).entity_id)

\* the systems whose prestep task is under way
InPrestep ==
    {s \in DOMAIN prestep_status : prestep_status[s] = "running"}

\* C24 as stated: a prestep task of a tick reads, through the view's
\* get_resource, the resource values from before the tick's update calls.
C24_PrestepSeesOldResources ==
    InPrestep # {} =>
        get_resource(eac, TestResource) = get_resource(tick_start, TestResource)

\* C24, amended: a prestep task of a tick reads, through the view's
\* get_resource, the resource values from after the tick's update calls, all
\* of which have returned before the first prestep task starts.
C24_PrestepSeesUpdatedResources ==
    InPrestep # {} =>
        get_resource(eac, TestResource) =
            update(get_resource(tick_start, TestResource))

\* two prestep tasks are under way in the second tick
C24_Witness ==
    /\ Cardinality(InPrestep) = 2
    /\ tick = 1
    /\ get_resource(eac, TestResource) = 2

\* the systems that have a prestep status before and after the step
SameTick == (DOMAIN prestep_status) \cap (DOMAIN prestep_status')

\* C26: in each tick prestep is invoked exactly once on every system whose
\* implements_prestep() is true and on no other system: a prestep starts only
\* on a declaring system that had none yet this tick, it ends once, and the
\* phase ends when each declaring system's prestep has ended; a system's own
\* state changes only as its own prestep task ends, so one task mutates it.
C26_PrestepOncePerDeclaringSystem ==
    [][/\ \A s \in SameTick :
            /\ prestep_status[s] = "none" => prestep_status'[s] = "none"
            /\ prestep_status[s] = "pending" =>
                  /\ prestep_status'[s] \in {"pending", "running"}
                  /\ implements_prestep(systems[s])
            /\ prestep_status[s] = "running" =>
                  prestep_status'[s] \in {"running", "done"}
            /\ prestep_status[s] = "done" => prestep_status'[s] = "done"
            /\ (pc = "prestep" /\ sys_state'[s] # sys_state[s]) =>
                  /\ prestep_status[s] = "running"
                  /\ prestep_status'[s] = "done"
                  /\ \A t \in SameTick \ {s} :
                        /\ sys_state'[t] = sys_state[t]
                        /\ prestep_status'[t] = prestep_status[t]
       /\ (pc = "prestep" /\ pc' # "prestep") =>
            \A s \in DOMAIN prestep_status :
                prestep_status[s] =
                    IF implements_prestep(systems[s]) THEN "done" ELSE "none"]_vars

\* the prestep phase has ended with the prestep of one system done, which
\* changed that system's state, and a system that declares none
C26_Witness ==
    /\ pc = "entity"
    /\ \E s, t \in DOMAIN prestep_status :
          /\ prestep_status[s] = "done"
          /\ sys_state[s] # << >>
          /\ prestep_status[t] = "none"
          /\ sys_state[t] = << >>

\* the systems whose hooks return on every live entity, whatever it holds:
\* they add or remove through the cursor and unwrap no component
ReturningKinds == {PrestepSystem, AddTagSystem, RemoveVelocitySystem, RemoveEntitySystem}

\* C31: World::run runs to completion: with hooks that end and workers that
\* are scheduled fairly, every tick finishes its prestep phase, its per-entity
\* phase and its run phase and returns.
C31_RunReturns ==
    (pc = "prestep" /\ SeqToSet(systems) \subseteq ReturningKinds) ~> (pc = "idle")

(***************************************************************************)
(* Properties of the cursor, checked under SpecCursor.                     *)
(***************************************************************************)
TryGetOps == {"try_get_component", "try_get_component_mut", "try_get_components"}
GetOps == {"get_component", "get_component_mut", "get_components"}

\* C15: on a live entity that lacks T, the try_get variants return None for T
\* without panicking and the panicking variants panic; either way the store
\* is as it was.
C15_AbsentComponent ==
    [][(/\ last'.before.live
        /\ last'.type \in AllTypes
        /\ last'.type \notin DOMAIN last'.before.bag)
          => /\ last'.op \in TryGetOps
                  => (~last'.panicked /\ last'.result = NoValue /\ eac' = eac)
             /\ last'.op \in GetOps => (last'.panicked /\ eac' = eac)]_vars

\* get_component panicked on a component that the step had removed before
C15_Witness ==
    /\ last.op = "get_component" /\ last.panicked
    /\ last.before.live
    /\ last.type \in Types
    /\ last.type \notin DOMAIN last.before.bag
    /\ last.before.bag # EmptyBag

CursorOps == {"get_component", "try_get_component", "get_component_mut",
              "has_component", "add_component", "remove_component",
              "remove_entity", "get_entity"}

\* C16: once the cursor's remove_entity has been called, every further call
\* on the cursor panics.
C16_RemovedCursorPanics ==
    [][(cursor \in removed /\ last'.op \in CursorOps) => last'.panicked]_vars

(***************************************************************************)
(* Properties of the resources, checked under SpecResource.                *)
(***************************************************************************)
\* the step is a call of a resource method (World::run leaves last alone and
\* counts a tick)
ResourceStep == tick' = tick /\ last'.op \in {"add_resource", "get_resource", "remove_resource"}

\* the entities and their components are those of e
SameEntities(e1, e2) == [e1 EXCEPT !.resources = << >>] = [e2 EXCEPT !.resources = << >>]

\* C21: the resource table is keyed by type: after add_resource<T>(r),
\* get_resource<T>() returns r, also when a resource of type T was there
\* before; after remove_resource<T>() it returns None; get_resource returns
\* what is stored and changes nothing; the resources of the other types and
\* every entity stay as they were.
C21_ResourcesKeyedByType ==
    [][ResourceStep =>
        /\ last'.op = "add_resource" => get_resource(eac', last'.type) = last'.value
        /\ last'.op = "remove_resource" => get_resource(eac', last'.type) = NoValue
        /\ last'.op = "get_resource" =>
              /\ last'.result = get_resource(eac, last'.type)
              /\ eac' = eac
        /\ \A T \in ResourceTypes \ {last'.type} :
              get_resource(eac', T) = get_resource(eac, T)
        /\ SameEntities(eac', eac)]_vars

\* an add_resource that replaced a resource holding another value, while a
\* resource of the other type and an entity exist
C21_Witness ==
    /\ last.op = "add_resource"
    /\ last.result # NoValue
    /\ last.result # last.value
    /\ get_resource(eac, last.type) = last.value
    /\ \E T \in ResourceTypes \ {last.type} : get_resource(eac, T) # NoValue
    /\ get_entity_count(eac) > 0

\* World::run is called in this step
RunCalled == pc = "idle" /\ (tick' # tick \/ pc' # pc)

\* C25: in each tick the resources' update hooks are called in the order in
\* which the resources were inserted with add_resource.
C25_UpdatesInInsertionOrder ==
    [][RunCalled => update_order' = resource_order]_vars

====
